---- MODULE Spec2Model ----
(***************************************************************************)
(* Dispatch dashboard (jaymarand/ovgi7): the run_supply_needs view over    *)
(* active_delivery_runs, daily_container_counts and store_supplies, and    *)
(* the DispatchDashboard component that reads it, registers runs through   *)
(* add_delivery_run and re-reads on every change notification.             *)
(***************************************************************************)
EXTENDS Integers, Sequences, FiniteSets, TLC

VARIABLES
    now,                    \* the database clock, in ticks (now(), a timestamp)
    active_delivery_runs,   \* the run registry, in insertion order
    next_run_id,            \* the next primary key the registry hands out
    daily_container_counts, \* the count facts, in insertion order
    store_supplies,         \* the par-level rows
    notifications,          \* postgres_changes events not yet handed to the callback
    reads,                  \* run_supply_needs selects in flight, in issue order
    storeReads,             \* stores selects in flight
    rpcs,                   \* add_delivery_run calls in flight
    mounted,                \* the component's mount effect has run
    runs,                   \* useState: runs
    stores,                 \* useState: stores
    loading,                \* useState: loading
    error,                  \* useState: error
    showStoreDropdown,      \* useState: showStoreDropdown
    added                   \* ids of the runs whose addRun has returned after a successful read

dbVars == <<now, active_delivery_runs, next_run_id, daily_container_counts, store_supplies>>
tables == <<active_delivery_runs, daily_container_counts, store_supplies>>
netVars == <<notifications, reads, storeReads, rpcs>>
uiVars == <<mounted, runs, stores, loading, error, showStoreDropdown, added>>
vars == <<dbVars, netVars, uiVars>>

----------------------------------------------------------------------------
(* Bounds of the model. *)

MaxTime == 2        \* the clock runs over 0..MaxTime
MaxRuns == 2        \* rows the registry receives in SpecView and SpecRefresh
MaxFacts == 2       \* count facts ever appended
MaxReads == 2       \* run_supply_needs selects in flight at once
MaxRpcs == 1        \* add_delivery_run calls in flight at once
MaxProbes == 1      \* selects other clients have in flight at once
MaxAdds == 1        \* rows the registry receives in Spec
MaxNotifications == 1 \* change events queued for the callback at once
MaxStatus == 2      \* runs move through the first MaxStatus statuses of the lifecycle

TicksPerDay == 2    \* clock ticks per calendar day of the model

----------------------------------------------------------------------------
(* Values. *)

NoError == "null"
NoSlot == "null"

RunTimes == <<"Morning Runs", "Afternoon Runs", "ADC Runs">>

Statuses == <<"pending", "loading", "preloaded", "in_transit", "complete", "cancelled">>

Supplies == {"sleeves", "caps", "canvases", "totes", "hardlines_raw", "softlines_raw"}

StoresTable ==
    { [id |-> "s9011", store_name |-> "Tri-County", department_number |-> "9011"],
      [id |-> "s9012", store_name |-> "Cheviot", department_number |-> "9012"] }

Departments == {s.department_number : s \in StoresTable}

ParShapes ==
    { [department_number |-> "9011", sleeves |-> 40, caps |-> 80, canvases |-> 12,
       totes |-> 21, hardlines_raw |-> 20, softlines_raw |-> 45],
      [department_number |-> "9012", sleeves |-> 10, caps |-> 20, canvases |-> 13,
       totes |-> 12, hardlines_raw |-> 5, softlines_raw |-> 5] }

CountShapes ==
    { [sleeves |-> 7, caps |-> 1, canvases |-> 2, totes |-> 3,
       hardlines_raw |-> 4, softlines_raw |-> 6],
      [sleeves |-> 8, caps |-> 0, canvases |-> 11, totes |-> 9,
       hardlines_raw |-> 6, softlines_raw |-> 0] }

----------------------------------------------------------------------------
(* SQL helpers. *)

\* DATE(ts): a timestamp truncated to its calendar day.
DateOf(ts) == ts \div TicksPerDay

\* CURRENT_DATE.
CURRENT_DATE == DateOf(now)

\* A nullable column: <<>> is NULL, <<v>> is the value v.
COALESCE(x, d) == IF x = <<>> THEN d ELSE x[1]

RECURSIVE SUM(_, _)
\* SUM(col) over the rows of a sequence.
SUM(rows, col) ==
    IF rows = <<>> THEN 0 ELSE Head(rows)[col] + SUM(Tail(rows), col)

\* Mutant of TodayCounts: the date filter on the count facts is missing.
TodayCounts_unfiltered == daily_container_counts

\* WHERE DATE(created_at) = CURRENT_DATE on the count facts.
TodayCounts ==
    SelectSeq(daily_container_counts, LAMBDA f : DateOf(f.created_at) = CURRENT_DATE)

GroupOf(d) == SelectSeq(TodayCounts, LAMBDA f : f.department_number = d)

\* The store_totals CTE: one row per department that has a fact today. (The
\* daily_counts CTE is not used by the view's SELECT.)
store_totals ==
    { [department_number |-> <<d>>,
       total_sleeves |-> <<SUM(GroupOf(d), "sleeves")>>,
       total_caps |-> <<SUM(GroupOf(d), "caps")>>,
       total_canvases |-> <<SUM(GroupOf(d), "canvases")>>,
       total_totes |-> <<SUM(GroupOf(d), "totes")>>,
       total_hardlines |-> <<SUM(GroupOf(d), "hardlines_raw")>>,
       total_softlines |-> <<SUM(GroupOf(d), "softlines_raw")>>]
      : d \in {TodayCounts[i].department_number : i \in DOMAIN TodayCounts} }

NullTotals ==
    [department_number |-> <<>>, total_sleeves |-> <<>>, total_caps |-> <<>>,
     total_canvases |-> <<>>, total_totes |-> <<>>, total_hardlines |-> <<>>,
     total_softlines |-> <<>>]

NullSupplies ==
    [department_number |-> <<>>, sleeves |-> <<>>, caps |-> <<>>, canvases |-> <<>>,
     totes |-> <<>>, hardlines_raw |-> <<>>, softlines_raw |-> <<>>]

\* A par-level row as the join sees it: its columns as nullable values.
SuppliesRow(s) ==
    [department_number |-> <<s.department_number>>, sleeves |-> <<s.sleeves>>,
     caps |-> <<s.caps>>, canvases |-> <<s.canvases>>, totes |-> <<s.totes>>,
     hardlines_raw |-> <<s.hardlines_raw>>, softlines_raw |-> <<s.softlines_raw>>]

\* Mutant of JoinTotals: an inner join in place of the left join.
JoinTotals_inner(r) ==
    {t \in store_totals : t.department_number = <<r.department_number>>}

\* LEFT JOIN store_totals st ON r.department_number = st.department_number
JoinTotals(r) ==
    LET m == {t \in store_totals : t.department_number = <<r.department_number>>}
    IN  IF m = {} THEN {NullTotals} ELSE m

\* LEFT JOIN store_supplies ss ON r.department_number = ss.department_number
JoinSupplies(r) ==
    LET m == {ss \in {SuppliesRow(s) : s \in store_supplies} :
                ss.department_number = <<r.department_number>>}
    IN  IF m = {} THEN {NullSupplies} ELSE m

\* Mutant of RunFilter: the WHERE clause is missing.
RunFilter_none(r) == TRUE

\* Mutant of RunFilter: the timestamp is compared without DATE().
RunFilter_raw(r) == r.created_at = now

\* WHERE DATE(r.created_at) = CURRENT_DATE
RunFilter(r) == DateOf(r.created_at) = CURRENT_DATE

\* FROM active_delivery_runs r LEFT JOIN ... LEFT JOIN ... WHERE ...: the joined
\* rows before projection, <<r, st, ss>>.
Joined ==
    UNION { { <<r, st, ss>> : st \in JoinTotals(r), ss \in JoinSupplies(r) }
            : r \in {active_delivery_runs[k] : k \in
                       {n \in DOMAIN active_delivery_runs :
                          RunFilter(active_delivery_runs[n])}} }

\* The SELECT list: one output row of run_supply_needs.
ViewRow(j) ==
    LET r == j[1]
        st == j[2]
        ss == j[3]
    IN  [run_id |-> r.id,
         store_name |-> r.store_name,
         department_number |-> r.department_number,
         run_type |-> r.run_type,
         type |-> r.truck_type,
         status |-> r.status,
         created_at |-> r.created_at,
         sleeves_needed |-> COALESCE(ss.sleeves, 0) - COALESCE(st.total_sleeves, 0),
         caps_needed |-> COALESCE(ss.caps, 0) - COALESCE(st.total_caps, 0),
         canvases_needed |-> COALESCE(ss.canvases, 0) - COALESCE(st.total_canvases, 0),
         totes_needed |-> COALESCE(ss.totes, 0) - COALESCE(st.total_totes, 0),
         hardlines_needed |->
             COALESCE(ss.hardlines_raw, 0) - COALESCE(st.total_hardlines, 0),
         softlines_needed |->
             COALESCE(ss.softlines_raw, 0) - COALESCE(st.total_softlines, 0)]

\* .order('created_at', { ascending: false }): every order of the joined rows that is
\* descending in created_at (rows with equal created_at come in any order).
Descending(S) ==
    { s \in [1..Cardinality(S) -> S] :
        /\ \A a, b \in DOMAIN s : a # b => s[a] # s[b]
        /\ \A a, b \in DOMAIN s : a < b => s[a][1].created_at >= s[b][1].created_at }

\* The results supabase.from('run_supply_needs').select('*').order(...) can return now.
run_supply_needs == { [i \in DOMAIN s |-> ViewRow(s[i])] : s \in Descending(Joined) }

\* The results supabase.from('stores').select('*').order('store_name') returns.
Collation(name) == CASE name = "Cheviot" -> 1 [] name = "Tri-County" -> 2

stores_by_name ==
    CHOOSE s \in [1..Cardinality(StoresTable) -> StoresTable] :
        \A a, b \in DOMAIN s :
            a < b => Collation(s[a].store_name) < Collation(s[b].store_name)

----------------------------------------------------------------------------
(* The database: writers other than this dashboard, and the clock. *)

\* Every write to active_delivery_runs: the postgres_changes event of the
\* 'dispatch-changes' channel, queued for the subscribed component. The channel is
\* taken to be joined as soon as the mount effect has run.
Notify ==
    /\ mounted => notifications < MaxNotifications
    /\ notifications' = IF mounted THEN notifications + 1 ELSE notifications

\* add_delivery_run(p_run_type, p_store_id, p_store_name, p_department_number,
\* p_truck_type): one new row, status and created_at at their defaults.
add_delivery_run(args) ==
    /\ active_delivery_runs' = Append(active_delivery_runs,
           [id |-> next_run_id,
            store_name |-> args.p_store_name,
            department_number |-> args.p_department_number,
            run_type |-> args.p_run_type,
            truck_type |-> args.p_truck_type,
            status |-> Statuses[1],
            created_at |-> now])
    /\ next_run_id' = next_run_id + 1

Tick ==
    /\ now < MaxTime
    /\ now' = now + 1
    /\ UNCHANGED <<active_delivery_runs, next_run_id, daily_container_counts,
                   store_supplies, netVars, uiVars>>

\* A count event: one fact appended, dated now.
InsertCount ==
    /\ Len(daily_container_counts) < MaxFacts
    /\ \E d \in Departments, c \in CountShapes :
         daily_container_counts' = Append(daily_container_counts,
             [department_number |-> d, created_at |-> now, sleeves |-> c.sleeves,
              caps |-> c.caps, canvases |-> c.canvases, totes |-> c.totes,
              hardlines_raw |-> c.hardlines_raw, softlines_raw |-> c.softlines_raw])
    /\ UNCHANGED <<now, active_delivery_runs, next_run_id, store_supplies,
                   netVars, uiVars>>

\* A par-level row for a department that has none (department_number is its key).
InsertSupplies ==
    /\ \E s \in ParShapes :
         /\ \A x \in store_supplies : x.department_number # s.department_number
         /\ store_supplies' = store_supplies \cup {s}
    /\ UNCHANGED <<now, active_delivery_runs, next_run_id, daily_container_counts,
                   netVars, uiVars>>

\* The lifecycle is driven from outside: a run moves to the next status of the
\* lifecycle.
UpdateRun ==
    /\ \E i \in DOMAIN active_delivery_runs :
         \E k \in 1..(MaxStatus - 1) :
            /\ active_delivery_runs[i].status = Statuses[k]
            /\ active_delivery_runs' =
                   [active_delivery_runs EXCEPT ![i].status = Statuses[k + 1]]
    /\ Notify
    /\ UNCHANGED <<now, next_run_id, daily_container_counts, store_supplies,
                   reads, storeReads, rpcs, uiVars>>

DeleteRun ==
    /\ \E i \in DOMAIN active_delivery_runs :
         active_delivery_runs' =
             SubSeq(active_delivery_runs, 1, i - 1)
                 \o SubSeq(active_delivery_runs, i + 1, Len(active_delivery_runs))
    /\ Notify
    /\ UNCHANGED <<now, next_run_id, daily_container_counts, store_supplies,
                   reads, storeReads, rpcs, uiVars>>

----------------------------------------------------------------------------
(* The component. *)

\* String.prototype.split(sep) for a one-character separator, on a string given as
\* its characters: the pieces between the separators, empty pieces included.
RECURSIVE Split(_, _)
Split(cs, sep) ==
    IF \A k \in DOMAIN cs : cs[k] # sep
    THEN <<cs>>
    ELSE LET k == CHOOSE n \in DOMAIN cs :
                      /\ cs[n] = sep
                      /\ \A m \in 1..(n - 1) : cs[m] # sep
         IN  <<SubSeq(cs, 1, k - 1)>> \o Split(SubSeq(cs, k + 1, Len(cs)), sep)

\* The characters of a slot label (type RunTime).
Chars(label) ==
    CASE label = "Morning Runs" ->
           <<"M", "o", "r", "n", "i", "n", "g", " ", "R", "u", "n", "s">>
      [] label = "Afternoon Runs" ->
           <<"A", "f", "t", "e", "r", "n", "o", "o", "n", " ", "R", "u", "n", "s">>
      [] label = "ADC Runs" ->
           <<"A", "D", "C", " ", "R", "u", "n", "s">>

Remove(s, i) == SubSeq(s, 1, i - 1) \o SubSeq(s, i + 1, Len(s))

\* A select of run_supply_needs just issued; for is the run whose addRun awaits it
\* (0: none).
NewRead(runId) == [stage |-> "sent", data |-> <<>>, for |-> runId]

\* fetchRuns up to its await: the select is issued.
fetchRuns(runId) ==
    /\ Len(reads) < MaxReads
    /\ reads' = Append(reads, NewRead(runId))

\* fetchStores up to its await.
fetchStores == storeReads' = Append(storeReads, [stage |-> "sent", data |-> <<>>])

\* useEffect(() => { fetchRuns(); fetchStores(); setupRealtimeSubscription(); }, [])
Mount ==
    /\ ~mounted
    /\ fetchRuns(0)
    /\ fetchStores
    /\ mounted' = TRUE
    /\ UNCHANGED <<dbVars, notifications, rpcs, runs, stores, loading, error,
                   showStoreDropdown, added>>

\* The postgres_changes callback: () => { fetchRuns(); }
OnNotification ==
    /\ notifications > 0
    /\ notifications' = notifications - 1
    /\ fetchRuns(0)
    /\ UNCHANGED <<dbVars, storeReads, rpcs, uiVars>>

\* The database answers a select of run_supply_needs with the view as it is now.
ServeReadOk(i) ==
    /\ reads[i].stage = "sent"
    /\ \E d \in run_supply_needs :
         reads' = [reads EXCEPT ![i].stage = "ok", ![i].data = d]
    /\ UNCHANGED <<dbVars, notifications, storeReads, rpcs, uiVars>>

\* The select fails (runsError).
ServeReadError(i) ==
    /\ reads[i].stage = "sent"
    /\ reads' = [reads EXCEPT ![i].stage = "failed"]
    /\ UNCHANGED <<dbVars, notifications, storeReads, rpcs, uiVars>>

\* addRun resumes after `await fetchRuns()` and returns.
AddRunReturns(i, ok) ==
    added' = IF ok /\ reads[i].for # 0 THEN added \cup {reads[i].for} ELSE added

\* Mutant of FetchRunsOk: a successful read also resets the error.
FetchRunsOk_resets(i) ==
    /\ reads[i].stage = "ok"
    /\ runs' = reads[i].data
    /\ loading' = FALSE
    /\ error' = NoError
    /\ reads' = Remove(reads, i)
    /\ AddRunReturns(i, TRUE)
    /\ UNCHANGED <<dbVars, notifications, storeReads, rpcs, mounted, stores,
                   showStoreDropdown>>

\* fetchRuns after its await, no error: setRuns(data || []); finally setLoading(false).
FetchRunsOk(i) ==
    /\ reads[i].stage = "ok"
    /\ runs' = reads[i].data
    /\ loading' = FALSE
    /\ reads' = Remove(reads, i)
    /\ AddRunReturns(i, TRUE)
    /\ UNCHANGED <<dbVars, notifications, storeReads, rpcs, mounted, stores, error,
                   showStoreDropdown>>

\* Mutant of FetchRunsFailed: a failed read clears the run list.
FetchRunsFailed_clears(i) ==
    /\ reads[i].stage = "failed"
    /\ error' = "Failed to fetch delivery runs"
    /\ runs' = <<>>
    /\ loading' = FALSE
    /\ reads' = Remove(reads, i)
    /\ AddRunReturns(i, FALSE)
    /\ UNCHANGED <<dbVars, notifications, storeReads, rpcs, mounted, stores,
                   showStoreDropdown>>

\* fetchRuns after its await, runsError thrown and caught.
FetchRunsFailed(i) ==
    /\ reads[i].stage = "failed"
    /\ error' = "Failed to fetch delivery runs"
    /\ loading' = FALSE
    /\ reads' = Remove(reads, i)
    /\ AddRunReturns(i, FALSE)
    /\ UNCHANGED <<dbVars, notifications, storeReads, rpcs, mounted, runs, stores,
                   showStoreDropdown>>

ServeStoresOk(i) ==
    /\ storeReads[i].stage = "sent"
    /\ storeReads' = [storeReads EXCEPT ![i].stage = "ok", ![i].data = stores_by_name]
    /\ UNCHANGED <<dbVars, notifications, reads, rpcs, uiVars>>

ServeStoresError(i) ==
    /\ storeReads[i].stage = "sent"
    /\ storeReads' = [storeReads EXCEPT ![i].stage = "failed"]
    /\ UNCHANGED <<dbVars, notifications, reads, rpcs, uiVars>>

\* fetchStores after its await, no error: setStores(data || []).
FetchStoresOk(i) ==
    /\ storeReads[i].stage = "ok"
    /\ stores' = storeReads[i].data
    /\ storeReads' = Remove(storeReads, i)
    /\ UNCHANGED <<dbVars, notifications, reads, rpcs, mounted, runs, loading, error,
                   showStoreDropdown, added>>

\* fetchStores after its await, storesError thrown and caught.
FetchStoresFailed(i) ==
    /\ storeReads[i].stage = "failed"
    /\ error' = "Failed to fetch stores"
    /\ storeReads' = Remove(storeReads, i)
    /\ UNCHANGED <<dbVars, notifications, reads, rpcs, mounted, runs, stores, loading,
                   showStoreDropdown, added>>

\* The tables and their buttons are rendered once loading is false.
Rendered == mounted /\ ~loading

\* onClick={() => setShowStoreDropdown(showStoreDropdown === timeSlot ? null : timeSlot)}
ToggleDropdown(timeSlot) ==
    /\ Rendered
    /\ showStoreDropdown' = IF showStoreDropdown = timeSlot THEN NoSlot ELSE timeSlot
    /\ UNCHANGED <<dbVars, netVars, mounted, runs, stores, loading, error, added>>

\* Mutant of AddRunArgs: the slot label is passed whole, not its first token.
AddRunArgs_label(store, timeSlot) ==
    [p_run_type |-> Chars(timeSlot),
     p_store_id |-> store.id,
     p_store_name |-> store.store_name,
     p_department_number |-> store.department_number,
     p_truck_type |-> "box_truck"]

\* The parameters addRun passes to supabase.rpc('add_delivery_run', ...).
AddRunArgs(store, timeSlot) ==
    LET runType == Split(Chars(timeSlot), " ")[1]
    IN  [p_run_type |-> runType,
         p_store_id |-> store.id,
         p_store_name |-> store.store_name,
         p_department_number |-> store.department_number,
         p_truck_type |-> "box_truck"]

\* onClick={() => addRun(store, timeSlot)}: addRun up to its first await.
AddRun(store, timeSlot) ==
    /\ Rendered
    /\ showStoreDropdown = timeSlot
    /\ \E k \in DOMAIN stores : stores[k] = store
    /\ Len(rpcs) < MaxRpcs
    /\ rpcs' = Append(rpcs, [args |-> AddRunArgs(store, timeSlot), stage |-> "sent",
                             run_id |-> 0])
    /\ UNCHANGED <<dbVars, notifications, reads, storeReads, uiVars>>

\* The database runs add_delivery_run and commits the new row.
ServeRpcOk(i, cap) ==
    /\ rpcs[i].stage = "sent"
    /\ next_run_id <= cap
    /\ add_delivery_run(rpcs[i].args)
    /\ Notify
    /\ rpcs' = [rpcs EXCEPT ![i].stage = "ok", ![i].run_id = next_run_id]
    /\ UNCHANGED <<now, daily_container_counts, store_supplies, reads, storeReads,
                   uiVars>>

\* The database rejects the call (addError): nothing is written.
ServeRpcError(i) ==
    /\ rpcs[i].stage = "sent"
    /\ rpcs' = [rpcs EXCEPT ![i].stage = "rejected"]
    /\ UNCHANGED <<dbVars, notifications, reads, storeReads, uiVars>>

\* addRun after the rpc, no addError: setShowStoreDropdown(null); await fetchRuns().
AddRunOk(i) ==
    /\ rpcs[i].stage = "ok"
    /\ showStoreDropdown' = NoSlot
    /\ fetchRuns(rpcs[i].run_id)
    /\ rpcs' = Remove(rpcs, i)
    /\ UNCHANGED <<dbVars, notifications, storeReads, mounted, runs, stores, loading,
                   error, added>>

\* Mutant of AddRunRejected: the selector is closed on the failure path too.
AddRunRejected_closes(i) ==
    /\ rpcs[i].stage = "rejected"
    /\ error' = "Failed to add run"
    /\ showStoreDropdown' = NoSlot
    /\ rpcs' = Remove(rpcs, i)
    /\ UNCHANGED <<dbVars, notifications, reads, storeReads, mounted, runs, stores,
                   loading, added>>

\* addRun after the rpc, addError thrown and caught: setError('Failed to add run').
AddRunRejected(i) ==
    /\ rpcs[i].stage = "rejected"
    /\ error' = "Failed to add run"
    /\ rpcs' = Remove(rpcs, i)
    /\ UNCHANGED <<dbVars, notifications, reads, storeReads, mounted, runs, stores,
                   loading, showStoreDropdown, added>>

\* Another dashboard registers a run for a store, from its last slot.
InsertRun(cap) ==
    /\ next_run_id <= cap
    /\ \E s \in StoresTable : add_delivery_run(AddRunArgs(s, RunTimes[Len(RunTimes)]))
    /\ Notify
    /\ UNCHANGED <<now, daily_container_counts, store_supplies, reads, storeReads,
                   rpcs, uiVars>>

\* Another client selects run_supply_needs, and later takes the answer.
InvokeView ==
    /\ Len(reads) < MaxProbes
    /\ reads' = Append(reads, NewRead(0))
    /\ UNCHANGED <<dbVars, notifications, storeReads, rpcs, uiVars>>

TakeAnswer(i) ==
    /\ reads[i].stage # "sent"
    /\ reads' = Remove(reads, i)
    /\ UNCHANGED <<dbVars, notifications, storeReads, rpcs, uiVars>>

----------------------------------------------------------------------------
(* Specifications. *)

Init ==
    /\ now = 0
    /\ active_delivery_runs = <<>>
    /\ next_run_id = 1
    /\ daily_container_counts = <<>>
    /\ store_supplies = {}
    /\ notifications = 0
    /\ reads = <<>>
    /\ storeReads = <<>>
    /\ rpcs = <<>>
    /\ mounted = FALSE
    /\ runs = <<>>
    /\ stores = <<>>
    /\ loading = TRUE
    /\ error = NoError
    /\ showStoreDropdown = NoSlot
    /\ added = {}

\* The component, its database and other writers of the registry, within one tick of
\* the database clock; reads, store reads and registrations may each fail.
Next ==
    \/ InsertRun(MaxAdds)
    \/ UpdateRun
    \/ DeleteRun
    \/ Mount
    \/ OnNotification
    \/ \E i \in DOMAIN reads : ServeReadOk(i)
    \/ \E i \in DOMAIN reads : ServeReadError(i)
    \/ \E i \in DOMAIN reads : FetchRunsOk(i)
    \/ \E i \in DOMAIN reads : FetchRunsFailed(i)
    \/ \E i \in DOMAIN storeReads : ServeStoresOk(i)
    \/ \E i \in DOMAIN storeReads : ServeStoresError(i)
    \/ \E i \in DOMAIN storeReads : FetchStoresOk(i)
    \/ \E i \in DOMAIN storeReads : FetchStoresFailed(i)
    \/ \E i \in 1..Len(RunTimes) : ToggleDropdown(RunTimes[i])
    \/ \E s \in StoresTable, i \in 1..Len(RunTimes) : AddRun(s, RunTimes[i])
    \/ \E i \in DOMAIN rpcs : ServeRpcOk(i, MaxAdds)
    \/ \E i \in DOMAIN rpcs : ServeRpcError(i)
    \/ \E i \in DOMAIN rpcs : AddRunOk(i)
    \/ \E i \in DOMAIN rpcs : AddRunRejected(i)

Spec == Init /\ [][Next]_vars

\* The database alone: its writers, its clock, and clients that select the view.
\* The component is not mounted.
NextView ==
    \/ Tick
    \/ InsertCount
    \/ InsertSupplies
    \/ InsertRun(MaxRuns)
    \/ DeleteRun
    \/ InvokeView
    \/ \E i \in DOMAIN reads : ServeReadOk(i)
    \/ \E i \in DOMAIN reads : ServeReadError(i)
    \/ \E i \in DOMAIN reads : TakeAnswer(i)

SpecView == Init /\ [][NextView]_vars

\* The component with a database and a network that never fail: every behaviour of
\* SpecRefresh is a behaviour of the component.
NextRefresh ==
    \/ DeleteRun
    \/ Mount
    \/ OnNotification
    \/ \E i \in DOMAIN reads : ServeReadOk(i)
    \/ \E i \in DOMAIN reads : FetchRunsOk(i)
    \/ \E i \in DOMAIN storeReads : ServeStoresOk(i)
    \/ \E i \in DOMAIN storeReads : FetchStoresOk(i)
    \/ \E i \in 1..Len(RunTimes) : ToggleDropdown(RunTimes[i])
    \/ \E s \in StoresTable, i \in 1..Len(RunTimes) : AddRun(s, RunTimes[i])
    \/ \E i \in DOMAIN rpcs : ServeRpcOk(i, MaxRuns)
    \/ \E i \in DOMAIN rpcs : AddRunOk(i)

SpecRefresh == Init /\ [][NextRefresh]_vars

----------------------------------------------------------------------------
(* The aggregator's claims, checked under SpecView. *)

Registry == {active_delivery_runs[k] : k \in DOMAIN active_delivery_runs}

\* The run was created on the calendar day the clock is in.
CreatedToday(r) == r.created_at \div TicksPerDay = now \div TicksPerDay

\* The rows of the view, whatever their order.
ViewRows == UNION { {out[k] : k \in DOMAIN out} : out \in run_supply_needs }

\* The par level of department d for a supply, 0 without a par-level row.
ParLevel(d, col) ==
    IF \E s \in store_supplies : s.department_number = d
    THEN (CHOOSE s \in store_supplies : s.department_number = d)[col]
    ELSE 0

\* The count facts of department d dated on the clock's day, by position.
FactsToday(d) ==
    {i \in DOMAIN daily_container_counts :
        /\ daily_container_counts[i].department_number = d
        /\ daily_container_counts[i].created_at \div TicksPerDay = now \div TicksPerDay}

FactsOtherDay(d) ==
    {i \in DOMAIN daily_container_counts :
        /\ daily_container_counts[i].department_number = d
        /\ daily_container_counts[i].created_at \div TicksPerDay # now \div TicksPerDay}

RECURSIVE Counted(_, _)
Counted(I, col) ==
    IF I = {} THEN 0
    ELSE LET i == CHOOSE x \in I : TRUE
         IN  daily_container_counts[i][col] + Counted(I \ {i}, col)

\* The output column that carries the deficit of a supply.
NeededColumn(col) ==
    CASE col = "sleeves" -> "sleeves_needed"
      [] col = "caps" -> "caps_needed"
      [] col = "canvases" -> "canvases_needed"
      [] col = "totes" -> "totes_needed"
      [] col = "hardlines_raw" -> "hardlines_needed"
      [] col = "softlines_raw" -> "softlines_needed"

\* C1: every output row carries, for each of the six supplies, the par level of the
\* run's store (0 without a par-level row) minus the sum of that store's count facts
\* dated today (0 without any); facts of other days add nothing, and the value is
\* not floored at zero.
C1_Deficits ==
    \A row \in ViewRows : \A col \in Supplies :
        LET d == row.department_number
        IN  /\ row[NeededColumn(col)] = ParLevel(d, col) - Counted(FactsToday(d), col)
            /\ FactsToday(d) = {} => row[NeededColumn(col)] = ParLevel(d, col)
            /\ (\A s \in store_supplies : s.department_number # d)
                   => row[NeededColumn(col)] = 0 - Counted(FactsToday(d), col)

\* A row of a store that has a par-level row, a fact of another day and a fact of
\* today, with a negative deficit.
C1_Witness ==
    \E row \in ViewRows :
        /\ \E s \in store_supplies : s.department_number = row.department_number
        /\ FactsToday(row.department_number) # {}
        /\ FactsOtherDay(row.department_number) # {}
        /\ row.hardlines_needed < 0
        /\ row.sleeves_needed > 0

C3_OnlyToday ==
    \A row \in ViewRows :
        /\ row.created_at \div TicksPerDay = now \div TicksPerDay
        /\ \E r \in Registry : r.id = row.run_id /\ CreatedToday(r)

\* The only run of the registry is of an earlier day, and the view is empty.
C3_Witness ==
    /\ Len(active_delivery_runs) = 1
    /\ ~CreatedToday(active_delivery_runs[1])
    /\ run_supply_needs = {<<>>}

\* C9 as claimed: between two states with no write to the three tables in between,
\* the view's output is the same.
C9_AsClaimed ==
    [][UNCHANGED tables => run_supply_needs' = run_supply_needs]_vars

\* C9 as amended: with no write to the three tables and the current date unchanged,
\* the view's output is the same; and answering a select writes none of the tables.
C9_Idempotent ==
    [][/\ (UNCHANGED tables /\ CURRENT_DATE' = CURRENT_DATE)
             => run_supply_needs' = run_supply_needs
       /\ (\E i \in DOMAIN reads : ServeReadOk(i) \/ ServeReadError(i))
             => UNCHANGED tables]_vars

\* A select answered at an earlier tick with a row, the same as the view gives now.
C9_Witness ==
    \E i \in DOMAIN reads :
        /\ reads[i].stage = "ok"
        /\ reads[i].data # <<>>
        /\ reads[i].data \in run_supply_needs
        /\ \A k \in DOMAIN reads[i].data : reads[i].data[k].created_at < now

----------------------------------------------------------------------------
(* The component's claims, checked under Spec and SpecRefresh. *)

\* The run-type tag the slot labels stand for.
Tag(timeSlot) ==
    CASE timeSlot = "Morning Runs" -> <<"M", "o", "r", "n", "i", "n", "g">>
      [] timeSlot = "Afternoon Runs" -> <<"A", "f", "t", "e", "r", "n", "o", "o", "n">>
      [] timeSlot = "ADC Runs" -> <<"A", "D", "C">>

\* C4: addRun(store, timeSlot) submits exactly one add_delivery_run call: the tag is
\* the label's first token, the store's id, name and department number are the chosen
\* store's, and the truck type is 'box_truck' for every store and slot.
C4_AddRunRequest ==
    [][\A s \in StoresTable : \A n \in 1..Len(RunTimes) :
          AddRun(s, RunTimes[n]) =>
             /\ Len(rpcs') = Len(rpcs) + 1
             /\ SubSeq(rpcs', 1, Len(rpcs)) = rpcs
             /\ rpcs'[Len(rpcs')].stage = "sent"
             /\ rpcs'[Len(rpcs')].args =
                    [p_run_type |-> Tag(RunTimes[n]),
                     p_store_id |-> s.id,
                     p_store_name |-> s.store_name,
                     p_department_number |-> s.department_number,
                     p_truck_type |-> "box_truck"]]_vars

\* The call for store Cheviot from slot "Morning Runs" is in flight.
C4_Witness ==
    \E i \in DOMAIN rpcs :
        /\ rpcs[i].stage = "sent"
        /\ rpcs[i].args.p_store_name = "Cheviot"
        /\ rpcs[i].args.p_department_number = "9012"
        /\ rpcs[i].args.p_run_type = <<"M", "o", "r", "n", "i", "n", "g">>
        /\ showStoreDropdown = "Morning Runs"

\* C5: once addRun has returned after a successful write and a successful read, the
\* displayed run list holds the new run (while the registry still holds it, created
\* today), whatever reads are still in flight.
C5_AddedRunDisplayed ==
    \A id \in added :
        (\E r \in Registry : r.id = id /\ CreatedToday(r))
            => \E k \in DOMAIN runs : runs[k].run_id = id

\* C6: a rejected registration writes nothing to the registry; on the rejection
\* addRun leaves the run list, the store list and the open selector as they are,
\* issues no read and no second call, and sets the error to 'Failed to add run'.
C6_RejectedAdd ==
    [][/\ (\E i \in DOMAIN rpcs : ServeRpcError(i)) =>
             UNCHANGED <<tables, next_run_id, notifications>>
       /\ \A i \in DOMAIN rpcs : AddRunRejected(i) =>
             /\ UNCHANGED <<tables, runs, stores, showStoreDropdown>>
             /\ UNCHANGED <<reads, storeReads>>
             /\ rpcs' = Remove(rpcs, i)
             /\ error' = "Failed to add run"]_vars

\* After a rejection: the message is shown, the selector is still open, the registry
\* is empty and nothing is in flight.
C6_Witness ==
    /\ error = "Failed to add run"
    /\ showStoreDropdown # NoSlot
    /\ active_delivery_runs = <<>>
    /\ rpcs = <<>>
    /\ reads = <<>>

\* C7: a failed read sets the error and leaves the store list and the run list as
\* they are, and no read is issued again.
C7_FailedRead ==
    [][/\ \A i \in DOMAIN storeReads : FetchStoresFailed(i) =>
             /\ UNCHANGED <<stores, runs, reads>>
             /\ storeReads' = Remove(storeReads, i)
             /\ error' = "Failed to fetch stores"
       /\ \A i \in DOMAIN reads : FetchRunsFailed(i) =>
             /\ UNCHANGED <<stores, runs, storeReads>>
             /\ reads' = Remove(reads, i)
             /\ error' = "Failed to fetch delivery runs"]_vars

\* The store listing failed with no store loaded, and a loaded run listing is still
\* displayed.
C7_Witness ==
    /\ error = "Failed to fetch stores"
    /\ stores = <<>>
    /\ storeReads = <<>>
    /\ runs # <<>>

\* C8: with every notification handled and every read answered successfully, the
\* displayed run list is what the view gives now.
C8_EventuallyConsistent ==
    ( /\ mounted
      /\ notifications = 0
      /\ reads = <<>>
      /\ rpcs = <<>>
      /\ error = NoError
      /\ \A r \in Registry : CreatedToday(r) )
        => runs \in run_supply_needs

\* C10: once set the error is never reset; only a failure path changes it; a
\* successful read or registration leaves it as it is.
C10_StickyError ==
    [][/\ error # NoError => error' # NoError
       /\ error' # error =>
             \/ \E i \in DOMAIN reads : FetchRunsFailed(i)
             \/ \E i \in DOMAIN storeReads : FetchStoresFailed(i)
             \/ \E i \in DOMAIN rpcs : AddRunRejected(i)
       /\ \A i \in DOMAIN reads : FetchRunsOk(i) => error' = error
       /\ \A i \in DOMAIN rpcs : AddRunOk(i) => error' = error]_vars

\* One registration was rejected and another succeeded: the run of the successful
\* one is displayed and the message is shown.
C10_Witness ==
    /\ error = "Failed to add run"
    /\ added # {}
    /\ \E k \in DOMAIN runs : runs[k].run_id \in added

====
